---- MODULE Spec2Model ----
(***************************************************************************)
(* Model of bevy_sprite_render::tilemap_chunk (mod.rs): the system         *)
(* update_tilemap_chunk_indices, the TilemapChunkMeshCache resource and    *)
(* the asset pools and components the system reads and writes.             *)
(*                                                                         *)
(* One run of the system (a tick) is BeginTick, one ProcessChunk step per  *)
(* changed chunk in an arbitrary order (the query's iteration order is     *)
(* unspecified), and EndTick, which applies the queued Commands.  Between  *)
(* ticks the rest of the application (Env* actions) edits tile storages,   *)
(* despawns grids and removes assets.                                      *)
(***************************************************************************)
EXTENDS Integers, Sequences, FiniteSets, TLC

\* ---------------------------------------------------------------- bounds
NumChunks == 2
MaxEnvSteps == 2

\* ------------------------------------------------------------- the world
Chunks == 1..NumChunks
Grids == {1, 2}

\* Handle and Option encodings: handles are positive naturals, 0 is "no handle".
None == 0
NoData == [some |-> FALSE, bytes |-> << >>]
SomeData(b) == [some |-> TRUE, bytes |-> b]

\* TileRenderData values (mod.rs 63-72); the colour is always Color::WHITE here.
DefaultTile == [tileset_index |-> 0, visible |-> TRUE]
OtherTile == [tileset_index |-> 258, visible |-> FALSE]
TileValues == <<DefaultTile, OtherTile>>

\* UVec2 values used for TileStorage::size and Tilemap::tile_display_size.
Sizes == {<<1, 1>>, <<1, 2>>, <<2, 1>>}

\* A TileStorage of a given size: one tile per cell, in cell order.
MkStorage(size, v) ==
  [size |-> size,
   tiles |-> [i \in 1..(size[1] * size[2]) |-> TileValues[((i + v) % 2) + 1]]]

Storages == {MkStorage(size, v) : size \in Sizes, v \in {0, 1}}

\* The grids of the world: entity g carries Tilemap and TilemapChunkRenderer.
InitTileDisplaySize(g) == IF g = 1 THEN <<2, 1>> ELSE <<1, 2>>
InitStorage(c) == MkStorage(IF c % 2 = 1 THEN <<1, 2>> ELSE <<2, 1>>, 0)
InitParent(c) == ((c - 1) % 2) + 1

VARIABLES
  storage,            \* chunk -> TileStorage<TileRenderData> component (mod.rs 101)
  changed,            \* chunk -> Changed<TileStorage<..>> for this system (mod.rs 104)
  childOf,            \* chunk -> ChildOf component, the parent entity (mod.rs 100)
  mesh2d,             \* chunk -> Mesh2d component, mesh handle or None (mod.rs 166)
  meshMaterial2d,     \* chunk -> MeshMaterial2d component, handle or None (mod.rs 102)
  grids,              \* grid -> what map_query sees on that entity (mod.rs 106)
  tilemap_chunk_mesh_cache, \* TilemapChunkMeshCache: size -> mesh handle (mod.rs 48)
  materials,          \* Assets<TilemapChunkMaterial>: handle -> material (mod.rs 108)
  images,             \* Assets<Image>: handle -> image (mod.rs 109)
  meshes,             \* Assets<Mesh>: handle -> rectangle size (mod.rs 110)
  added,              \* number of assets ever added to each pool
  modified,           \* assets marked changed by get_mut during the current tick
  commands,           \* queued Commands of the running system (mod.rs 111)
  warnings,           \* chunk -> warn! calls naming it during the current tick
  outcome,            \* chunk -> what the current tick did with it
  pc,                 \* "idle", "running", "applied"
  pre,                \* the state at the beginning of the current tick
  envLeft             \* remaining environment steps

vars == <<storage, changed, childOf, mesh2d, meshMaterial2d, grids,
          tilemap_chunk_mesh_cache, materials, images, meshes, added, modified,
          commands, warnings, outcome, pc, pre, envLeft>>

world == <<storage, changed, childOf, mesh2d, meshMaterial2d, grids>>
pools == <<materials, images, meshes, added>>

Snapshot ==
  [storage |-> storage, changed |-> changed, childOf |-> childOf, mesh2d |-> mesh2d,
   meshMaterial2d |-> meshMaterial2d, grids |-> grids,
   cache |-> tilemap_chunk_mesh_cache, materials |-> materials, images |-> images,
   meshes |-> meshes, added |-> added]

\* ------------------------------------------------------- pure operators

\* size_of::<PackedTileData>(): u16 index, four colour bytes, u16 flags.
RecordSize == 8

\* PackedTileData::from(TileRenderData): little-endian u16 index, RGBA8 colour
\* (white), u16 flags with bit 0 = visible.
PackTile(t) ==
  <<t.tileset_index % 256, t.tileset_index \div 256,
    255, 255, 255, 255,
    IF t.visible THEN 1 ELSE 0, 0>>

RECURSIVE Concat(_)
Concat(ss) == IF ss = << >> THEN << >> ELSE Head(ss) \o Concat(Tail(ss))

\* storage.tiles.iter().map(|&tile| tile.into()).collect(), then
\* bytemuck::cast_slice: the records' bytes in iteration order.
PackTilesReversed(tiles) ==
  Concat([i \in 1..Len(tiles) |-> PackTile(tiles[Len(tiles) + 1 - i])])

PackTiles(tiles) == Concat([i \in 1..Len(tiles) |-> PackTile(tiles[i])])

\* make_chunk_tile_data_image(&storage.size, &packed_tile_data)
MakeChunkTileDataImage(size, bytes) ==
  [width |-> size[1], height |-> size[2], data |-> SomeData(bytes)]

\* storage.size * map.tile_display_size (UVec2, component-wise)
MeshSizeCellsOnly(size, tile_display_size) == size

MeshSize(size, tile_display_size) ==
  <<size[1] * tile_display_size[1], size[2] * tile_display_size[2]>>

\* map_query.get(entity): Ok only if the entity is alive and carries both
\* Tilemap and TilemapChunkRenderer.
MapQueryGetTilemapOnly(gs, g) == gs[g].state # "despawned"

MapQueryGet(gs, g) == gs[g].state = "ok"

\* Assets::get_mut(id), the Option part: Some iff the id is in the pool.
AssetsContains(pool, h) == h \in DOMAIN pool

\* Assets::get_mut(id), the change-detection part: a Some result marks the asset changed.
NoMark(set, h) == set

MarkModified(set, h) == set \cup {h}

\* Assets::add(asset): a fresh handle for a new entry, the other entries kept.
AssetsAddDroppingOthers(pool, h, v) == h :> v

AssetsAdd(pool, h, v) == h :> v @@ pool

\* tilemap_chunk_mesh_cache.get(&mesh_size)
CacheGetAlwaysMiss(cache, size) == None

CacheGet(cache, size) == IF size \in DOMAIN cache THEN cache[size] ELSE None

\* tilemap_chunk_mesh_cache.insert(mesh_size, mesh.clone())
CacheInsertForgotten(cache, size, mesh) == cache

CacheInsertReplacing(cache, size, mesh) == size :> mesh

CacheInsert(cache, size, mesh) == [k \in DOMAIN cache \cup {size} |->
                                     IF k = size THEN mesh ELSE cache[k]]

\* data.clear(); data.extend_from_slice(bytes)
AppendWithoutClear(data, bytes) == data \o bytes

ClearAndExtend(data, bytes) == bytes

\* material.and_then(|material| materials.get_mut(material.id())):
\* the material handle when the component is present and resolves, else None.
ResolveMaterial(component, pool) ==
  IF component # None /\ AssetsContains(pool, component) THEN component ELSE None

\* Which way one iteration of the loop goes for chunk c in state s.
BranchImageFallsThrough(s, c) ==
  IF ~MapQueryGet(s.grids, s.childOf[c]) THEN "skip_map"
  ELSE LET m == ResolveMaterial(s.meshMaterial2d[c], s.materials) IN
       IF m = None THEN "create"
       ELSE IF ~AssetsContains(s.images, s.materials[m].tile_data) THEN "create"
       ELSE IF ~s.images[s.materials[m].tile_data].data.some THEN "create"
       ELSE "update"

BranchIn(s, c) ==
  IF ~MapQueryGet(s.grids, s.childOf[c]) THEN "skip_map"
  ELSE LET m == ResolveMaterial(s.meshMaterial2d[c], s.materials) IN
       IF m = None THEN "create"
       ELSE IF ~AssetsContains(s.images, s.materials[m].tile_data) THEN "skip_image"
       ELSE IF ~s.images[s.materials[m].tile_data].data.some THEN "skip_data"
       ELSE "update"

\* The query's filter Changed<TileStorage<TileRenderData>>: the loop visits
\* exactly the chunks whose storage changed since the system last ran.
QueryMatchesAll(ch, c) == TRUE

QueryMatches(ch, c) == ch[c]

\* `continue`: this chunk is done, the loop goes on with the others.
BreakLoop(out, c, tag) ==
  [d \in DOMAIN out |-> IF d = c THEN tag ELSE IF out[d] = "none" THEN "aborted" ELSE out[d]]

Continue(out, c, tag) == [out EXCEPT ![c] = tag]

\* commands.entity(chunk_id).insert((Mesh2d(mesh), MeshMaterial2d(material)))
QueueInsertSharedMaterial(cmds, c, mesh, material) ==
  Append(cmds, [entity |-> c, mesh |-> mesh,
                material |-> IF cmds = << >> THEN material ELSE cmds[1].material])

QueueInsert(cmds, c, mesh, material) ==
  Append(cmds, [entity |-> c, mesh |-> mesh, material |-> material])

\* ------------------------------------------------------------ the system

Cur == Snapshot

Branch(c) == BranchIn(Cur, c)

Init ==
  /\ storage = [c \in Chunks |-> InitStorage(c)]
  /\ changed = [c \in Chunks |-> TRUE]
  /\ childOf = [c \in Chunks |-> InitParent(c)]
  /\ mesh2d = [c \in Chunks |-> None]
  /\ meshMaterial2d = [c \in Chunks |-> None]
  /\ grids = [g \in Grids |-> [state |-> "ok",
                               tile_display_size |-> InitTileDisplaySize(g),
                               tileset |-> g,
                               alpha_mode |-> "Blend"]]
  /\ tilemap_chunk_mesh_cache = << >>
  /\ materials = << >>
  /\ images = << >>
  /\ meshes = << >>
  /\ added = [materials |-> 0, images |-> 0, meshes |-> 0]
  /\ modified = [materials |-> {}, images |-> {}]
  /\ commands = << >>
  /\ warnings = [c \in Chunks |-> 0]
  /\ outcome = [c \in Chunks |-> "none"]
  /\ pc = "idle"
  /\ pre = Snapshot
  /\ envLeft = MaxEnvSteps

\* The scheduler runs the system: the query is evaluated, the loop starts.
BeginTick ==
  /\ pc \in {"idle", "applied"}
  /\ pc' = "running"
  /\ modified' = [materials |-> {}, images |-> {}]
  /\ warnings' = [c \in Chunks |-> 0]
  /\ outcome' = [c \in Chunks |-> "none"]
  /\ commands' = << >>
  /\ pre' = Snapshot
  /\ UNCHANGED <<world, tilemap_chunk_mesh_cache, pools, envLeft>>

\* warn!(...); continue;  for a chunk whose map_query.get failed.
SkipMap(c) ==
  /\ outcome' = Continue(outcome, c, "skip_map")
  /\ warnings' = [warnings EXCEPT ![c] = @ + 1]
  /\ UNCHANGED <<world, tilemap_chunk_mesh_cache, pools, modified, commands>>

\* materials.get_mut succeeded, images.get_mut returned None.
SkipImage(c) ==
  LET m == ResolveMaterial(meshMaterial2d[c], materials) IN
  /\ modified' = [modified EXCEPT !.materials = MarkModified(@, m)]
  /\ outcome' = Continue(outcome, c, "skip_image")
  /\ warnings' = [warnings EXCEPT ![c] = @ + 1]
  /\ UNCHANGED <<world, tilemap_chunk_mesh_cache, pools, commands>>

\* materials.get_mut and images.get_mut succeeded, tile_data_image.data is None.
SkipData(c) ==
  LET m == ResolveMaterial(meshMaterial2d[c], materials)
      img == materials[m].tile_data IN
  /\ modified' = [materials |-> MarkModified(modified.materials, m),
                  images |-> MarkModified(modified.images, img)]
  /\ outcome' = Continue(outcome, c, "skip_data")
  /\ warnings' = [warnings EXCEPT ![c] = @ + 1]
  /\ UNCHANGED <<world, tilemap_chunk_mesh_cache, pools, commands>>

\* The update path: the tile-data image's buffer is rewritten in place.
UpdatePathRefreshingMaterial(c) ==
  LET m == ResolveMaterial(meshMaterial2d[c], materials)
      img == materials[m].tile_data
      map == grids[childOf[c]]
      packed == PackTiles(storage[c].tiles) IN
  /\ modified' = [materials |-> MarkModified(modified.materials, m),
                  images |-> MarkModified(modified.images, img)]
  /\ images' = [images EXCEPT
                  ![img].data = SomeData(ClearAndExtend(@.bytes, packed))]
  /\ materials' = [materials EXCEPT ![m].tileset = map.tileset,
                                    ![m].alpha_mode = map.alpha_mode]
  /\ outcome' = Continue(outcome, c, "update")
  /\ UNCHANGED <<world, tilemap_chunk_mesh_cache, meshes, added, commands, warnings>>

UpdatePath(c) ==
  LET m == ResolveMaterial(meshMaterial2d[c], materials)
      img == materials[m].tile_data
      packed == PackTiles(storage[c].tiles) IN
  /\ modified' = [materials |-> MarkModified(modified.materials, m),
                  images |-> MarkModified(modified.images, img)]
  /\ images' = [images EXCEPT
                  ![img].data = SomeData(ClearAndExtend(@.bytes, packed))]
  /\ outcome' = Continue(outcome, c, "update")
  /\ UNCHANGED <<world, tilemap_chunk_mesh_cache, materials, meshes, added,
                 commands, warnings>>

\* The create path: new image, mesh from the cache (or new), new material,
\* and a queued insert of Mesh2d and MeshMaterial2d.
CreatePath(c) ==
  LET map == grids[childOf[c]]
      packed == PackTiles(storage[c].tiles)
      tile_data_image == MakeChunkTileDataImage(storage[c].size, packed)
      mesh_size == MeshSize(storage[c].size, map.tile_display_size)
      cached == CacheGet(tilemap_chunk_mesh_cache, mesh_size)
      mesh == IF cached # None THEN cached ELSE added.meshes + 1
      tile_data == added.images + 1
      material == added.materials + 1 IN
  /\ IF cached # None
       THEN UNCHANGED <<meshes, tilemap_chunk_mesh_cache>>
       ELSE /\ meshes' = AssetsAdd(meshes, mesh, mesh_size)
            /\ tilemap_chunk_mesh_cache' =
                 CacheInsert(tilemap_chunk_mesh_cache, mesh_size, mesh)
  /\ images' = AssetsAdd(images, tile_data, tile_data_image)
  /\ materials' = AssetsAdd(materials, material,
                            [tileset |-> map.tileset,
                             tile_data |-> tile_data,
                             alpha_mode |-> map.alpha_mode])
  /\ added' = [materials |-> material,
               images |-> tile_data,
               meshes |-> IF cached # None THEN added.meshes ELSE mesh]
  /\ commands' = QueueInsert(commands, c, mesh, material)
  /\ outcome' = Continue(outcome, c, "create")
  /\ UNCHANGED <<world, modified, warnings>>

\* One iteration of `for (chunk_id, in_map, storage, material) in query`.
ProcessChunk(c) ==
  /\ pc = "running"
  /\ QueryMatches(changed, c)
  /\ outcome[c] = "none"
  /\ LET path == Branch(c) IN
       CASE path = "skip_map" -> SkipMap(c)
         [] path = "skip_image" -> SkipImage(c)
         [] path = "skip_data" -> SkipData(c)
         [] path = "update" -> UpdatePath(c)
         [] path = "create" -> CreatePath(c)
  /\ UNCHANGED <<pc, pre, envLeft>>

RECURSIVE ApplyCommands(_, _)
ApplyCommands(cmds, comps) ==
  IF cmds = << >> THEN comps
  ELSE LET k == Head(cmds) IN
       ApplyCommands(Tail(cmds),
                     [mesh2d |-> [comps.mesh2d EXCEPT ![k.entity] = k.mesh],
                      meshMaterial2d |->
                        [comps.meshMaterial2d EXCEPT ![k.entity] = k.material]])

\* The loop is over: the system returns, its Commands are applied, and the
\* changes it has seen no longer count as Changed for its next run.
EndTick ==
  /\ pc = "running"
  /\ \A c \in Chunks : QueryMatches(changed, c) => outcome[c] # "none"
  /\ LET comps == ApplyCommands(commands,
                                [mesh2d |-> mesh2d, meshMaterial2d |-> meshMaterial2d]) IN
       /\ mesh2d' = comps.mesh2d
       /\ meshMaterial2d' = comps.meshMaterial2d
  /\ commands' = << >>
  /\ changed' = [c \in Chunks |-> FALSE]
  /\ pc' = "applied"
  /\ UNCHANGED <<storage, childOf, grids, tilemap_chunk_mesh_cache, pools, modified,
                 warnings, outcome, pre, envLeft>>

\* ------------------------------------------------------- the environment

EnvStep ==
  /\ pc \in {"idle", "applied"}
  /\ envLeft > 0
  /\ envLeft' = envLeft - 1
  /\ pc' = "idle"
  /\ UNCHANGED <<commands, warnings, outcome, pre, modified, added,
                 tilemap_chunk_mesh_cache, meshes, mesh2d, meshMaterial2d, childOf>>

\* Another system writes a chunk's TileStorage.
EnvEditStorage(c, s) ==
  /\ EnvStep
  /\ s # storage[c]
  /\ storage' = [storage EXCEPT ![c] = s]
  /\ changed' = [changed EXCEPT ![c] = TRUE]
  /\ UNCHANGED <<grids, materials, images>>

\* A grid entity is despawned, or loses its TilemapChunkRenderer.
EnvBreakGrid(g, st) ==
  /\ EnvStep
  /\ grids[g].state = "ok"
  /\ grids' = [grids EXCEPT ![g].state = st]
  /\ UNCHANGED <<storage, changed, materials, images>>

\* A grid's TilemapChunkRenderer (an immutable component) is replaced by one
\* with another tileset and alpha mode.
EnvReplaceRenderer(g) ==
  /\ EnvStep
  /\ grids[g].state = "ok"
  /\ grids[g].alpha_mode = "Blend"
  /\ grids' = [grids EXCEPT ![g].alpha_mode = "Opaque", ![g].tileset = @ + 2]
  /\ UNCHANGED <<storage, changed, materials, images>>

\* Assets::<TilemapChunkMaterial>::remove
EnvRemoveMaterial(h) ==
  /\ EnvStep
  /\ h \in DOMAIN materials
  /\ materials' = [k \in DOMAIN materials \ {h} |-> materials[k]]
  /\ UNCHANGED <<storage, changed, grids, images>>

\* Assets::<Image>::remove
EnvRemoveImage(h) ==
  /\ EnvStep
  /\ h \in DOMAIN images
  /\ images' = [k \in DOMAIN images \ {h} |-> images[k]]
  /\ UNCHANGED <<storage, changed, grids, materials>>

\* The image's CPU-side data is released (Image::data = None).
EnvDropImageData(h) ==
  /\ EnvStep
  /\ h \in DOMAIN images
  /\ images[h].data.some
  /\ images' = [images EXCEPT ![h].data = NoData]
  /\ UNCHANGED <<storage, changed, grids, materials>>

Next ==
  \/ BeginTick
  \/ \E c \in Chunks : ProcessChunk(c)
  \/ EndTick
  \/ \E c \in Chunks, s \in Storages : EnvEditStorage(c, s)
  \/ \E g \in Grids, st \in {"despawned", "no_renderer"} : EnvBreakGrid(g, st)
  \/ \E g \in Grids : EnvReplaceRenderer(g)
  \/ \E h \in DOMAIN materials : EnvRemoveMaterial(h)
  \/ \E h \in DOMAIN images : EnvRemoveImage(h)
  \/ \E h \in DOMAIN images : EnvDropImageData(h)

Spec == Init /\ [][Next]_vars

\* The system is a plain loop over a finite query result with no waiting: once
\* it runs, every iteration and its return are eventually taken.
FairSpec ==
  /\ Spec
  /\ WF_vars(\E c \in Chunks : ProcessChunk(c))
  /\ WF_vars(EndTick)

\* ---------------------------------------------------------------- claims
\* Vocabulary of the properties below, in terms of the state alone.

\* The step is one loop iteration that visits chunk c.
Visits(c) == pc = "running" /\ outcome[c] = "none" /\ outcome'[c] # "none"

\* The step is taken by the system (environment steps always leave pc = "idle").
SystemStep == pc' \in {"running", "applied"}

\* In state s, chunk c's parent resolves to a grid with Tilemap and TilemapChunkRenderer.
GridResolves(s, c) == s.grids[s.childOf[c]].state = "ok"

\* In state s, chunk c has a MeshMaterial2d component.
Bound(s, c) == s.meshMaterial2d[c] # None

\* In state s, the material attached to chunk c is in the material pool.
MaterialResolves(s, c) == Bound(s, c) /\ s.meshMaterial2d[c] \in DOMAIN s.materials

\* In state s, the tile-data image of chunk c's material is in the image pool.
ImageResolves(s, c) ==
  /\ MaterialResolves(s, c)
  /\ s.materials[s.meshMaterial2d[c]].tile_data \in DOMAIN s.images

\* In state s, that image also has a backing buffer.
BufferPresent(s, c) ==
  /\ ImageResolves(s, c)
  /\ s.images[s.materials[s.meshMaterial2d[c]].tile_data].data.some

\* The pixel footprint of chunk c in state s: cell dimensions times tile_display_size.
FootprintAt(s, c) ==
  <<s.storage[c].size[1] * s.grids[s.childOf[c]].tile_display_size[1],
    s.storage[c].size[2] * s.grids[s.childOf[c]].tile_display_size[2]>>

\* The bytes of chunk c's tile-data buffer in the current state.
BufferOf(c) == images[materials[meshMaterial2d[c]].tile_data].data.bytes

\* The mesh handle the current tick has attached, or queued to attach, to chunk c.
AttachedMesh(c) ==
  IF \E i \in 1..Len(commands) : commands[i].entity = c
    THEN (CHOOSE k \in {commands[i] : i \in 1..Len(commands)} : k.entity = c).mesh
    ELSE mesh2d[c]

\* ---- C1
\* C1 (size sharing): whenever the current tick has taken the create path for two
\* distinct chunks that were unbound, changed and had resolvable grids at its start
\* and whose pixel footprints (storage.size * tile_display_size) are equal, both
\* are attached the same mesh handle and the mesh pool holds exactly one mesh of
\* that footprint, in either processing order.
C1_SizeSharing ==
  \A c, d \in Chunks :
    (/\ c # d
     /\ pc \in {"running", "applied"}
     /\ outcome[c] = "create" /\ outcome[d] = "create"
     /\ ~Bound(pre, c) /\ ~Bound(pre, d)
     /\ GridResolves(pre, c) /\ GridResolves(pre, d)
     /\ FootprintAt(pre, c) = FootprintAt(pre, d))
    => /\ AttachedMesh(c) # None
       /\ AttachedMesh(c) = AttachedMesh(d)
       /\ Cardinality({h \in DOMAIN meshes : meshes[h] = FootprintAt(pre, c)}) = 1

\* Chunk 2 was processed before chunk 1, the two have different cell dimensions and
\* tile display sizes but the same footprint, and both got the same mesh.
C1_Witness ==
  /\ pc = "running"
  /\ Len(commands) = 2
  /\ commands[1].entity = 2 /\ commands[2].entity = 1
  /\ commands[1].mesh = commands[2].mesh
  /\ pre.storage[1].size # pre.storage[2].size
  /\ pre.grids[pre.childOf[1]].tile_display_size
       # pre.grids[pre.childOf[2]].tile_display_size
  /\ FootprintAt(pre, 1) = FootprintAt(pre, 2)
  /\ added.meshes = 1

\* ---- C2
\* C2 (create-then-update convergence), first half: after the commands of a tick
\* are applied, a chunk that took the create path carries Mesh2d and
\* MeshMaterial2d, and its material and tile-data image resolve with the packed
\* tiles as buffer.
C2_CreatedIsBound ==
  \A c \in Chunks :
    (pc = "applied" /\ outcome[c] = "create")
    => /\ mesh2d[c] # None
       /\ BufferPresent(Cur, c)
       /\ BufferOf(c) = PackTiles(storage[c].tiles)

\* C2, second half: a visit of a bound chunk whose grid, material, image and
\* buffer resolve replaces the buffer by the packed current tiles and adds no
\* material, image or mesh, queues no insert, and changes no component.
C2_UpdateInPlace ==
  \A c \in Chunks :
    (Visits(c) /\ GridResolves(Cur, c) /\ BufferPresent(Cur, c))
    => /\ BufferOf(c)' = PackTiles(storage[c].tiles)
       /\ added' = added
       /\ DOMAIN materials' = DOMAIN materials
       /\ DOMAIN images' = DOMAIN images
       /\ DOMAIN meshes' = DOMAIN meshes
       /\ tilemap_chunk_mesh_cache' = tilemap_chunk_mesh_cache
       /\ commands' = commands
       /\ mesh2d' = mesh2d /\ meshMaterial2d' = meshMaterial2d

\* C2: create-then-update convergence, both halves.
C2_CreateThenUpdate == [](C2_CreatedIsBound) /\ [][C2_UpdateInPlace]_vars

\* A chunk bound by an earlier tick has been synchronized again with other tiles:
\* the buffer changed, nothing was added.
C2_Witness ==
  \E c \in Chunks :
    /\ pc = "applied"
    /\ outcome[c] = "update"
    /\ Bound(pre, c)
    /\ BufferOf(c) # pre.images[pre.materials[pre.meshMaterial2d[c]].tile_data].data.bytes
    /\ BufferOf(c) = PackTiles(storage[c].tiles)
    /\ added = pre.added
    /\ meshMaterial2d[c] = pre.meshMaterial2d[c]

\* ---- C3
\* C3 (a binding is created at most once per chunk): no visit of a chunk that
\* already carries MeshMaterial2d adds an image, material or mesh or queues an
\* insert of components, whatever the pools contain.
C3_BoundNeverCreates ==
  [][\A c \in Chunks :
       (Visits(c) /\ Bound(Cur, c))
       => /\ added' = added
          /\ commands' = commands]_vars

\* ---- C4
\* The state of everything a visit of another chunk reads or writes.
OthersFrame(c) ==
  /\ UNCHANGED <<world, tilemap_chunk_mesh_cache, pools, modified, commands>>
  /\ \A d \in Chunks \ {c} : outcome'[d] = outcome[d] /\ warnings'[d] = warnings[d]

\* C4 (failure isolation), the failing chunk: a visit of a chunk whose parent grid
\* does not resolve emits exactly one warning for it and changes nothing else,
\* so the other chunks are processed from the same state as if it were absent.
C4_SkipIsLocal ==
  \A b \in Chunks :
    (Visits(b) /\ ~GridResolves(Cur, b))
    => /\ warnings[b] = 0 /\ warnings'[b] = 1
       /\ OthersFrame(b)

\* C4, the other chunks: when the tick is over every changed chunk has been
\* visited; a chunk whose grid did not resolve has one warning and the components
\* it had; a valid chunk is bound (create path) or updated, its buffer holding the
\* packed tiles, without a warning.
C4_OthersSynchronized ==
  pc = "applied" =>
    \A a \in Chunks :
      pre.changed[a] =>
        IF ~GridResolves(pre, a)
          THEN /\ warnings[a] = 1
               /\ mesh2d[a] = pre.mesh2d[a]
               /\ meshMaterial2d[a] = pre.meshMaterial2d[a]
          ELSE (~Bound(pre, a) \/ BufferPresent(pre, a))
               => /\ outcome[a] \in {"create", "update"}
                  /\ outcome[a] = "create" <=> ~Bound(pre, a)
                  /\ warnings[a] = 0
                  /\ mesh2d[a] # None
                  /\ BufferPresent(Cur, a)
                  /\ BufferOf(a) = PackTiles(storage[a].tiles)

\* C4: failure isolation, both parts.
C4_FailureIsolation == [](C4_OthersSynchronized) /\ [][C4_SkipIsLocal]_vars

\* A tick in which one chunk's grid was missing and another chunk was bound.
C4_Witness ==
  \E a, b \in Chunks :
    /\ pc = "applied"
    /\ pre.changed[a] /\ pre.changed[b]
    /\ ~GridResolves(pre, b) /\ warnings[b] = 1 /\ meshMaterial2d[b] = None
    /\ GridResolves(pre, a) /\ outcome[a] = "create" /\ meshMaterial2d[a] # None

\* ---- C5
\* One of the four failures occurs for chunk c in the current state.
Fails(c) ==
  \/ ~GridResolves(Cur, c)
  \/ MaterialResolves(Cur, c) /\ ~ImageResolves(Cur, c)
  \/ ImageResolves(Cur, c) /\ ~BufferPresent(Cur, c)

\* C5 (all-or-nothing per chunk): a visit of a chunk for which one of the four
\* failures occurs leaves the components, the materials and their changed marks,
\* the images, the pools and the mesh cache as they were.
C5_AllOrNothing ==
  [][\A c \in Chunks :
       (Visits(c) /\ Fails(c))
       => UNCHANGED <<world, tilemap_chunk_mesh_cache, pools, modified, commands>>]_vars

\* ---- C6
\* C6 (update-path failures do not fall through): a visit of a chunk whose
\* material resolves but whose tile-data image is missing or has no buffer emits
\* one warning, adds nothing to a pool, leaves the mesh cache alone and queues no
\* insert.
C6_NoFallThrough ==
  [][\A c \in Chunks :
       (/\ Visits(c)
        /\ GridResolves(Cur, c)
        /\ MaterialResolves(Cur, c)
        /\ ~BufferPresent(Cur, c))
       => /\ warnings'[c] = warnings[c] + 1
          /\ UNCHANGED <<pools, tilemap_chunk_mesh_cache, commands, world>>]_vars

\* A bound chunk whose tile-data image was removed from the pool was skipped with
\* one warning and nothing was allocated.
C6_Witness ==
  \E c \in Chunks :
    /\ pc = "applied"
    /\ pre.changed[c]
    /\ GridResolves(pre, c)
    /\ MaterialResolves(pre, c) /\ ~ImageResolves(pre, c)
    /\ warnings[c] = 1
    /\ added = pre.added

\* ---- C7
\* C7 (mesh cache idempotence and injectivity): the number of meshes ever added
\* equals the number of cache keys; each key's handle is a mesh of exactly that
\* size, so distinct sizes have distinct handles; and every insert queued in the
\* current tick carries the cache's handle for the chunk's footprint, so one size
\* always yields the same handle.
C7_MeshCache ==
  /\ added.meshes = Cardinality(DOMAIN tilemap_chunk_mesh_cache)
  /\ \A k \in DOMAIN tilemap_chunk_mesh_cache :
       /\ tilemap_chunk_mesh_cache[k] \in DOMAIN meshes
       /\ meshes[tilemap_chunk_mesh_cache[k]] = k
  /\ \A j, k \in DOMAIN tilemap_chunk_mesh_cache :
       j # k => tilemap_chunk_mesh_cache[j] # tilemap_chunk_mesh_cache[k]
  /\ \A i \in 1..Len(commands) :
       /\ FootprintAt(Cur, commands[i].entity) \in DOMAIN tilemap_chunk_mesh_cache
       /\ commands[i].mesh
            = tilemap_chunk_mesh_cache[FootprintAt(Cur, commands[i].entity)]

\* Three create-path runs over two ticks asked for two sizes: two meshes, the
\* first shared by two chunks, the second distinct.
C7_Witness ==
  /\ pc = "applied"
  /\ added.materials = 3
  /\ added.meshes = 2
  /\ Cardinality(DOMAIN tilemap_chunk_mesh_cache) = 2

\* ---- C8
\* C8 (mutation visibility): during and at the end of a tick, every image whose
\* contents differ from those at the start of the tick is the tile data of a
\* material marked changed in this tick, and every chunk that took the update
\* path has its material marked changed.
C8_MutationVisible ==
  pc \in {"running", "applied"} =>
    /\ \A h \in DOMAIN pre.images :
         images[h] # pre.images[h]
         => \E m \in modified.materials :
              m \in DOMAIN materials /\ materials[m].tile_data = h
    /\ \A c \in Chunks :
         outcome[c] = "update" => pre.meshMaterial2d[c] \in modified.materials

\* A bound chunk's buffer was rewritten with other bytes and its material is marked.
C8_Witness ==
  \E c \in Chunks :
    /\ pc = "applied"
    /\ BufferPresent(pre, c)
    /\ BufferPresent(Cur, c)
    /\ BufferOf(c) # pre.images[pre.materials[pre.meshMaterial2d[c]].tile_data].data.bytes
    /\ meshMaterial2d[c] \in modified.materials

\* ---- C9
\* What a tick does with chunk c, as a function of the state at its start alone.
ExpectedOutcome(c) ==
  IF ~pre.changed[c] THEN "none"
  ELSE IF ~GridResolves(pre, c) THEN "skip_map"
  ELSE IF ~MaterialResolves(pre, c) THEN "create"
  ELSE IF ~ImageResolves(pre, c) THEN "skip_image"
  ELSE IF ~BufferPresent(pre, c) THEN "skip_data"
  ELSE "update"

Created == {c \in Chunks : ExpectedOutcome(c) = "create"}

\* C9 (order independence within a tick): at the end of a tick, whatever the
\* processing order was, each chunk's outcome and warning count are those
\* determined by the state at the start of the tick; updated and newly bound
\* chunks hold the packed tiles; the cache's key set is the old one plus the
\* footprints of the newly bound chunks, old keys keeping their handles; and two
\* newly bound chunks share a mesh exactly when their footprints are equal.
C9_OrderIndependent ==
  pc = "applied" =>
    /\ \A c \in Chunks :
         /\ outcome[c] = ExpectedOutcome(c)
         /\ warnings[c] = IF ExpectedOutcome(c) \in {"skip_map", "skip_image", "skip_data"}
                            THEN 1 ELSE 0
         /\ ExpectedOutcome(c) \in {"update", "create"}
            => BufferPresent(Cur, c) /\ BufferOf(c) = PackTiles(pre.storage[c].tiles)
         /\ ExpectedOutcome(c) \notin {"update", "create"}
            => /\ mesh2d[c] = pre.mesh2d[c]
               /\ meshMaterial2d[c] = pre.meshMaterial2d[c]
    /\ DOMAIN tilemap_chunk_mesh_cache
         = DOMAIN pre.cache \cup {FootprintAt(pre, c) : c \in Created}
    /\ \A k \in DOMAIN pre.cache : tilemap_chunk_mesh_cache[k] = pre.cache[k]
    /\ \A c, d \in Created :
         (mesh2d[c] = mesh2d[d]) <=> (FootprintAt(pre, c) = FootprintAt(pre, d))
    /\ Cardinality(DOMAIN images) = Cardinality(DOMAIN pre.images) + Cardinality(Created)
    /\ Cardinality(DOMAIN materials)
         = Cardinality(DOMAIN pre.materials) + Cardinality(Created)

\* A tick over two changed chunks of different footprints, one newly bound and
\* one skipped or updated, has ended.
C9_Witness ==
  /\ pc = "applied"
  /\ \E c, d \in Chunks :
       /\ c # d
       /\ pre.changed[c] /\ pre.changed[d]
       /\ outcome[c] = "create"
       /\ outcome[d] \in {"update", "skip_map"}
  /\ Cardinality(DOMAIN tilemap_chunk_mesh_cache) > Cardinality(DOMAIN pre.cache)

QueuedMaterials == {commands[i].material : i \in 1..Len(commands)}

\* C11 (binding exclusivity), the state: no two chunks carry the same material
\* handle, no two queued inserts carry the same material or one a chunk already
\* carries, and no two materials of the pool have the same tile-data image.
C11_Exclusive ==
  /\ \A c, d \in Chunks :
       (c # d /\ meshMaterial2d[c] # None) => meshMaterial2d[c] # meshMaterial2d[d]
  /\ \A i, j \in 1..Len(commands) :
       i # j => commands[i].material # commands[j].material
  /\ \A c \in Chunks : meshMaterial2d[c] \notin QueuedMaterials
  /\ \A m, n \in DOMAIN materials :
       m # n => materials[m].tile_data # materials[n].tile_data

\* C11, the create path: a visit of a chunk whose grid resolves and whose
\* material does not adds exactly one image and one material, the new material
\* referring to the new image, and queues one insert, for that chunk, of the new
\* material.
C11_CreateAllocatesOnePair ==
  \A c \in Chunks :
    (Visits(c) /\ GridResolves(Cur, c) /\ ~MaterialResolves(Cur, c))
    => /\ added'.images = added.images + 1
       /\ added'.materials = added.materials + 1
       /\ DOMAIN images' = DOMAIN images \cup {added'.images}
       /\ DOMAIN materials' = DOMAIN materials \cup {added'.materials}
       /\ added'.images \notin DOMAIN images
       /\ added'.materials \notin DOMAIN materials
       /\ materials'[added'.materials].tile_data = added'.images
       /\ Len(commands') = Len(commands) + 1
       /\ commands'[Len(commands')].entity = c
       /\ commands'[Len(commands')].material = added'.materials

\* C11: binding exclusivity, both parts.
C11_BindingExclusivity == [](C11_Exclusive) /\ [][C11_CreateAllocatesOnePair]_vars

\* Two chunks bound in one tick share their mesh but have different materials
\* with different tile-data images.
C11_Witness ==
  /\ pc = "applied"
  /\ mesh2d[1] # None /\ mesh2d[1] = mesh2d[2]
  /\ MaterialResolves(Cur, 1) /\ MaterialResolves(Cur, 2)
  /\ meshMaterial2d[1] # meshMaterial2d[2]
  /\ materials[meshMaterial2d[1]].tile_data # materials[meshMaterial2d[2]].tile_data

\* ---- C12
\* The chunks the tick that just ended has bound or updated.
Synchronized == {c \in Chunks : pc = "applied" /\ outcome[c] \in {"create", "update"}}

\* C12 (packed buffer content): at the end of a tick the tile-data buffer of every
\* chunk bound or updated by it has RecordSize bytes per tile of the chunk's
\* storage and holds, at offset (i-1) * RecordSize, the packed record of the i-th
\* tile; so nothing of the previous contents remains, and two chunks with the
\* same tiles have byte-identical buffers.
C12_PackedBuffer ==
  /\ \A c \in Synchronized :
       LET tiles == storage[c].tiles
           buf == BufferOf(c) IN
       /\ BufferPresent(Cur, c)
       /\ Len(buf) = Len(tiles) * RecordSize
       /\ \A i \in 1..Len(tiles) :
            SubSeq(buf, (i - 1) * RecordSize + 1, i * RecordSize) = PackTile(tiles[i])
  /\ \A c, d \in Synchronized :
       storage[c].tiles = storage[d].tiles => BufferOf(c) = BufferOf(d)

\* An update replaced a two-record buffer by a one-record buffer.
C12_Witness ==
  \E c \in Chunks :
    /\ pc = "applied"
    /\ outcome[c] = "update"
    /\ Len(pre.images[pre.materials[pre.meshMaterial2d[c]].tile_data].data.bytes)
         = 2 * RecordSize
    /\ Len(BufferOf(c)) = RecordSize
    /\ BufferOf(c) = PackTile(storage[c].tiles[1])

\* ---- C13
\* C13 (create-path sizing): at the end of a tick, for every chunk it has newly
\* bound, the tile-data image's width and height are the chunk's cell dimensions,
\* the footprint cell dimensions * tile_display_size is a key of the mesh cache,
\* the chunk's Mesh2d is the cache's handle for that key, and that mesh is the
\* rectangle of that size.
C13_CreateSizing ==
  \A c \in Chunks :
    (pc = "applied" /\ outcome[c] = "create")
    => LET img == images[materials[meshMaterial2d[c]].tile_data]
           fp == FootprintAt(pre, c) IN
       /\ img.width = pre.storage[c].size[1]
       /\ img.height = pre.storage[c].size[2]
       /\ fp \in DOMAIN tilemap_chunk_mesh_cache
       /\ mesh2d[c] = tilemap_chunk_mesh_cache[fp]
       /\ meshes[mesh2d[c]] = fp

\* A chunk of 1x2 cells on a grid with tile_display_size (2,1) was bound: key
\* (2,2), one mesh, one binding.
C13_Witness ==
  \E c \in Chunks :
    /\ pc = "applied"
    /\ outcome[c] = "create"
    /\ pre.storage[c].size = <<1, 2>>
    /\ pre.grids[pre.childOf[c]].tile_display_size = <<2, 1>>
    /\ DOMAIN tilemap_chunk_mesh_cache = {<<2, 2>>}
    /\ mesh2d[c] = tilemap_chunk_mesh_cache[<<2, 2>>]
    /\ images[materials[meshMaterial2d[c]].tile_data].width = 1
    /\ images[materials[meshMaterial2d[c]].tile_data].height = 2

\* ---- C14
\* C14 (mesh cache monotone growth), the steps: no step removes a key of the
\* cache or changes the handle stored for it, and a key appears only in a step
\* that takes the create path for a chunk with exactly that footprint.
C14_GrowsByCreate ==
  /\ \A k \in DOMAIN tilemap_chunk_mesh_cache :
       /\ k \in DOMAIN tilemap_chunk_mesh_cache'
       /\ tilemap_chunk_mesh_cache'[k] = tilemap_chunk_mesh_cache[k]
  /\ \A k \in DOMAIN tilemap_chunk_mesh_cache' \ DOMAIN tilemap_chunk_mesh_cache :
       \E c \in Chunks :
         /\ Visits(c)
         /\ GridResolves(Cur, c)
         /\ ~MaterialResolves(Cur, c)
         /\ k = FootprintAt(Cur, c)

\* C14, the size: the cache never has more keys than create-path runs have
\* happened, nor more than there are footprints a chunk can have.
C14_Bounded ==
  /\ Cardinality(DOMAIN tilemap_chunk_mesh_cache) <= added.materials
  /\ DOMAIN tilemap_chunk_mesh_cache
       \subseteq {<<a[1] * b[1], a[2] * b[2]>> : a \in Sizes, b \in Sizes}

\* C14: the mesh cache grows monotonically, by footprints of bound chunks only.
C14_CacheMonotone == [](C14_Bounded) /\ [][C14_GrowsByCreate]_vars

\* A later tick added a second key to the cache and kept the first.
C14_Witness ==
  /\ pc = "applied"
  /\ Cardinality(DOMAIN pre.cache) = 1
  /\ Cardinality(DOMAIN tilemap_chunk_mesh_cache) = 2
  /\ \A k \in DOMAIN pre.cache : tilemap_chunk_mesh_cache[k] = pre.cache[k]

\* ---- C15
\* C15 (missing parent or missing descriptor), the visit: a visit of a chunk
\* whose parent is despawned or lacks the TilemapChunkRenderer emits one warning
\* and changes no pool, no counter, no cache entry, no component, no changed
\* mark and no buffer, and queues nothing.
C15_SkipBeforeAnything ==
  \A c \in Chunks :
    (Visits(c) /\ grids[childOf[c]].state \in {"despawned", "no_renderer"})
    => /\ warnings'[c] = warnings[c] + 1
       /\ UNCHANGED <<materials, images, meshes, added, tilemap_chunk_mesh_cache,
                      mesh2d, meshMaterial2d, modified, commands>>

\* C15, no second visit: while the tick runs, a chunk that has been visited
\* keeps its outcome and its warning count.
C15_NotVisitedAgain ==
  \A c \in Chunks :
    (pc = "running" /\ pc' = "running" /\ outcome[c] # "none")
    => outcome'[c] = outcome[c] /\ warnings'[c] = warnings[c]

\* C15: a chunk without a resolvable grid and descriptor is skipped untouched.
C15_MissingGridSkip == [][C15_SkipBeforeAnything /\ C15_NotVisitedAgain]_vars

\* A bound chunk whose grid lost its TilemapChunkRenderer was skipped: one
\* warning, material not marked, buffer as before.
C15_Witness ==
  \E c \in Chunks :
    /\ pc = "applied"
    /\ pre.changed[c]
    /\ pre.grids[pre.childOf[c]].state = "no_renderer"
    /\ BufferPresent(pre, c)
    /\ warnings[c] = 1
    /\ pre.meshMaterial2d[c] \notin modified.materials
    /\ images = pre.images
    /\ added = pre.added

\* ---- C16
\* The chunks the current tick has taken the create path for.
CreatedSoFar == {c \in Chunks : outcome[c] = "create"}

\* C16 (only changed chunks are touched): during and at the end of a tick a chunk
\* whose storage was not changed at its start has no outcome, no warning, no
\* queued insert, the components it had, its material and image not marked
\* changed and its image as it was; and the images, materials and cache keys
\* added are those of the changed chunks that took the create path.
C16_OnlyChanged ==
  pc \in {"running", "applied"} =>
    /\ \A c \in Chunks :
         ~pre.changed[c] =>
           /\ outcome[c] = "none"
           /\ warnings[c] = 0
           /\ \A i \in 1..Len(commands) : commands[i].entity # c
           /\ mesh2d[c] = pre.mesh2d[c]
           /\ meshMaterial2d[c] = pre.meshMaterial2d[c]
           /\ meshMaterial2d[c] # None => meshMaterial2d[c] \notin modified.materials
           /\ ImageResolves(pre, c) =>
                LET h == pre.materials[pre.meshMaterial2d[c]].tile_data IN
                /\ h \notin modified.images
                /\ h \in DOMAIN images
                /\ images[h] = pre.images[h]
    /\ \A c \in CreatedSoFar : pre.changed[c]
    /\ added.materials = pre.added.materials + Cardinality(CreatedSoFar)
    /\ added.images = pre.added.images + Cardinality(CreatedSoFar)
    /\ DOMAIN tilemap_chunk_mesh_cache \ DOMAIN pre.cache
         \subseteq {FootprintAt(pre, c) : c \in CreatedSoFar}

\* A tick updated one chunk and left a bound, unchanged chunk alone.
C16_Witness ==
  \E c, d \in Chunks :
    /\ pc = "applied"
    /\ ~pre.changed[c] /\ BufferPresent(pre, c)
    /\ pre.changed[d] /\ outcome[d] = "update"
    /\ images[pre.materials[pre.meshMaterial2d[c]].tile_data]
         = pre.images[pre.materials[pre.meshMaterial2d[c]].tile_data]

\* ---- C17
\* The three ways a tick can have ended for chunk c, in terms of the state.
SkippedWithWarning(c) ==
  /\ warnings[c] = 1
  /\ mesh2d[c] = pre.mesh2d[c] /\ meshMaterial2d[c] = pre.meshMaterial2d[c]

UpdatedInPlace(c) ==
  /\ warnings[c] = 0
  /\ meshMaterial2d[c] = pre.meshMaterial2d[c]
  /\ BufferPresent(Cur, c)
  /\ meshMaterial2d[c] \in modified.materials
  /\ BufferOf(c) = PackTiles(storage[c].tiles)

NewlyBound(c) ==
  /\ warnings[c] = 0
  /\ meshMaterial2d[c] > pre.added.materials
  /\ MaterialResolves(Cur, c)

\* C17, the result: when a tick has ended, every chunk changed at its start has
\* exactly one of the three outcomes, and no other chunk was visited.
C17_OneOutcomeEach ==
  pc = "applied" =>
    \A c \in Chunks :
      IF pre.changed[c]
        THEN /\ outcome[c] \in {"skip_map", "skip_image", "skip_data", "update", "create"}
             /\ SkippedWithWarning(c) \/ UpdatedInPlace(c) \/ NewlyBound(c)
             /\ ~(SkippedWithWarning(c) /\ UpdatedInPlace(c))
             /\ ~(SkippedWithWarning(c) /\ NewlyBound(c))
             /\ ~(UpdatedInPlace(c) /\ NewlyBound(c))
        ELSE outcome[c] = "none"

\* C17, one visit each: a visit is of a chunk changed at the start of the tick
\* that has not been visited, and visits one chunk.
C17_VisitsOnce ==
  \A c \in Chunks :
    Visits(c) => /\ pre.changed[c]
                 /\ \A d \in Chunks \ {c} : outcome'[d] = outcome[d]

\* C17 (per-tick termination): every run of the system ends, having visited each
\* changed chunk once with exactly one outcome.
C17_TickTerminates ==
  /\ (pc = "running") ~> (pc = "applied")
  /\ [](C17_OneOutcomeEach)
  /\ [][C17_VisitsOnce]_vars

\* A tick in which every chunk failed (both grids gone) has ended, each chunk
\* skipped with one warning and nothing allocated.
C17_Witness ==
  /\ pc = "applied"
  /\ \A c \in Chunks : pre.changed[c] /\ ~GridResolves(pre, c) /\ warnings[c] = 1
  /\ added.materials = 0

\* ---- C18
\* C18 (tile-data texture consistent with the chunk's dimensions): at the end of
\* a tick, for every chunk it has bound or updated, the tile-data image's width
\* and height are the chunk's current cell dimensions and the buffer has
\* width * height * RecordSize bytes.
C18_TextureMatchesCells ==
  \A c \in Synchronized :
    LET img == images[materials[meshMaterial2d[c]].tile_data] IN
    /\ img.width = storage[c].size[1]
    /\ img.height = storage[c].size[2]
    /\ Len(img.data.bytes) = img.width * img.height * RecordSize

\* ---- C19
\* C19 (attached geometry matches the current footprint): at the end of a tick,
\* for every chunk it has bound or updated, the chunk's Mesh2d is the mesh cache's
\* handle for the chunk's current footprint (current cell dimensions times the
\* current tile_display_size of its current parent).
C19_MeshMatchesFootprint ==
  \A c \in Synchronized :
    /\ FootprintAt(Cur, c) \in DOMAIN tilemap_chunk_mesh_cache
    /\ mesh2d[c] = tilemap_chunk_mesh_cache[FootprintAt(Cur, c)]

\* ---- C20
\* C20 (update-path frame): a visit of a bound chunk whose grid, material, image
\* and buffer resolve changes, of the material pool, only the changed mark of the
\* chunk's material and, of the image pool, only the data of that material's
\* tile-data image; the material's tileset, alpha_mode and tile_data, every
\* other material and image, the components, the mesh cache, the mesh pool, the
\* pool counters and the other chunks' outcomes and warnings stay as they were,
\* whatever the grid's TilemapChunkRenderer now holds.
C20_UpdateFrame ==
  [][\A c \in Chunks :
       (Visits(c) /\ GridResolves(Cur, c) /\ BufferPresent(Cur, c))
       => LET m == meshMaterial2d[c]
              h == materials[m].tile_data IN
          /\ materials' = materials
          /\ modified'.materials = modified.materials \cup {m}
          /\ DOMAIN images' = DOMAIN images
          /\ \A k \in DOMAIN images \ {h} : images'[k] = images[k]
          /\ images'[h].width = images[h].width
          /\ images'[h].height = images[h].height
          /\ UNCHANGED <<mesh2d, meshMaterial2d, tilemap_chunk_mesh_cache, meshes,
                         added, commands, warnings, storage, childOf, grids>>
          /\ \A d \in Chunks \ {c} : outcome'[d] = outcome[d]]_vars

\* A chunk was updated after its grid's renderer had been replaced: the material
\* still has the tileset and alpha mode copied when it was created.
C20_Witness ==
  \E c \in Chunks :
    /\ pc = "applied"
    /\ outcome[c] = "update"
    /\ materials[meshMaterial2d[c]].alpha_mode # grids[childOf[c]].alpha_mode
    /\ materials[meshMaterial2d[c]].tileset # grids[childOf[c]].tileset
    /\ materials = pre.materials
    /\ meshMaterial2d[c] \in modified.materials
    /\ BufferOf(c) # pre.images[pre.materials[pre.meshMaterial2d[c]].tile_data].data.bytes

====
